---------------------------- MODULE Spec2Model ----------------------------
(***************************************************************************)
(* Model of stats-ci: confidence intervals over the mean (arithmetic,      *)
(* geometric, harmonic) and over a binomial proportion.                    *)
(*                                                                         *)
(* Floating-point numbers (f64) are modelled as fixed-point numbers with   *)
(* Scale units per 1.0, rounded to the nearest unit after every operation, *)
(* together with the IEEE special values NaN, +inf, -inf and -0.0.         *)
(***************************************************************************)
EXTENDS Integers, Sequences, FiniteSets, TLC

(***************************************************************************)
(* Bounds of the model.                                                    *)
(***************************************************************************)
Scale == 1000        \* fixed-point units per 1.0
MaxLen == 3          \* longest sample handed to a mean engine
MaxBools == 5        \* longest sample handed to ci_true / ci_if
MaxPop == 21         \* largest population handed to a count-based call
MaxSample == 5       \* longest sample of three values handed to a quantile call
MaxConcLen == 2      \* longest sample handed to one of two concurrent calls

(***************************************************************************)
(* Float values.                                                           *)
(***************************************************************************)
Fin(v) == [c |-> "fin", v |-> v]
NaN == [c |-> "nan", v |-> 0]
PInf == [c |-> "inf", v |-> 1]
NInf == [c |-> "inf", v |-> -1]
NZero == [c |-> "nzero", v |-> 0]
Zero == Fin(0)
One == Fin(Scale)
FromInt(n) == Fin(n * Scale)
Ratio(num, den) == Fin((num * Scale) \div den)

Abs(i) == IF i < 0 THEN -i ELSE i
RoundDiv(a, b) == (2 * a + b) \div (2 * b)

is_nan(x) == x.c = "nan"
is_infinite(x) == x.c = "inf"
is_zero(x) == x.c = "nzero" \/ (x.c = "fin" /\ x.v = 0)
\* The sign of a NaN is not the same for every NaN; every use below is
\* `is_sign_positive(x) || !is_zero(x)`, which is true of a NaN either way.
is_sign_positive(x) ==
    CASE x.c = "fin" -> x.v >= 0
      [] x.c = "inf" -> x.v = 1
      [] x.c = "nzero" -> FALSE
      [] OTHER -> TRUE

Sign(x) == IF x.c = "nzero" \/ x.v < 0 THEN -1 ELSE 1
Mag(x) == IF x.c = "fin" THEN Abs(x.v) ELSE 0
Val(x) == IF x.c = "fin" THEN x.v ELSE 0
Signed(s, m) == IF m = 0 THEN (IF s = 1 THEN Zero ELSE NZero) ELSE Fin(s * m)
SignedInf(s) == IF s = 1 THEN PInf ELSE NInf

\* Arithmetic.  A finite result is rounded to the nearest unit; a result of
\* magnitude zero keeps the sign IEEE 754 gives it.
fneg(x) ==
    CASE x.c = "nan" -> NaN
      [] x.c = "inf" -> SignedInf(-x.v)
      [] x.c = "nzero" -> Zero
      [] OTHER -> IF x.v = 0 THEN NZero ELSE Fin(-x.v)

fadd(a, b) ==
    IF is_nan(a) \/ is_nan(b) THEN NaN
    ELSE IF is_infinite(a) THEN (IF is_infinite(b) /\ b.v # a.v THEN NaN ELSE a)
    ELSE IF is_infinite(b) THEN b
    ELSE IF a.c = "nzero" /\ b.c = "nzero" THEN NZero
    ELSE Fin(Val(a) + Val(b))

fsub(a, b) == fadd(a, fneg(b))

fmul(a, b) ==
    IF is_nan(a) \/ is_nan(b) THEN NaN
    ELSE IF is_infinite(a) \/ is_infinite(b)
         THEN (IF is_zero(a) \/ is_zero(b) THEN NaN ELSE SignedInf(Sign(a) * Sign(b)))
    ELSE Signed(Sign(a) * Sign(b), RoundDiv(Mag(a) * Mag(b), Scale))

fdiv(a, b) ==
    IF is_nan(a) \/ is_nan(b) THEN NaN
    ELSE IF is_infinite(a)
         THEN (IF is_infinite(b) THEN NaN ELSE SignedInf(Sign(a) * Sign(b)))
    ELSE IF is_infinite(b) THEN Signed(Sign(a) * Sign(b), 0)
    ELSE IF is_zero(b)
         THEN (IF is_zero(a) THEN NaN ELSE SignedInf(Sign(a) * Sign(b)))
    ELSE Signed(Sign(a) * Sign(b), RoundDiv(Mag(a) * Scale, Mag(b)))

recip(x) == fdiv(One, x)

RECURSIVE SqrtSearch(_, _, _)
SqrtSearch(n, lo, hi) ==
    IF lo >= hi THEN lo
    ELSE LET mid == (lo + hi + 1) \div 2
         IN  IF mid * mid <= n THEN SqrtSearch(n, mid, hi)
             ELSE SqrtSearch(n, lo, mid - 1)

ISqrt(n) ==
    LET r == SqrtSearch(n, 0, 46340)
    IN  IF n - r * r > r THEN r + 1 ELSE r

fsqrt(x) ==
    CASE x.c = "nan" -> NaN
      [] x.c = "nzero" -> NZero
      [] x.c = "inf" -> IF x.v = 1 THEN PInf ELSE NaN
      [] OTHER -> IF x.v < 0 THEN NaN ELSE Fin(ISqrt(x.v * Scale))

Ord(x) == IF x.c = "inf" THEN x.v * 2000000000 ELSE Val(x)
flt(a, b) == ~is_nan(a) /\ ~is_nan(b) /\ Ord(a) < Ord(b)
fle(a, b) == ~is_nan(a) /\ ~is_nan(b) /\ Ord(a) <= Ord(b)
fgt(a, b) == flt(b, a)
fge(a, b) == fle(b, a)

(***************************************************************************)
(* ln and exp in fixed point: range reduction by powers of two, then the   *)
(* atanh series for ln and the Taylor series for exp.  exp rounds down at  *)
(* every step, which keeps it monotone.                                    *)
(***************************************************************************)
Ln2 == (693147 * Scale) \div 1000000

RECURSIVE Pow2(_)
Pow2(k) == IF k <= 0 THEN 1 ELSE 2 * Pow2(k - 1)

RECURSIVE AtanhSeries(_, _, _, _)
AtanhSeries(z, zpow, i, acc) ==
    IF zpow = 0 \/ i > 15 THEN acc
    ELSE AtanhSeries(z, RoundDiv(RoundDiv(zpow * z, Scale) * z, Scale), i + 2,
                     acc + RoundDiv(zpow, i))

RECURSIVE LnUp(_, _)
LnUp(v, k) == IF v < 2 * Scale * Pow2(k) THEN k ELSE LnUp(v, k + 1)

RECURSIVE LnDown(_, _)
LnDown(v, j) == IF v * Pow2(j) >= Scale THEN j ELSE LnDown(v, j + 1)

LnFix(v) ==
    IF v >= Scale
    THEN LET k == LnUp(v, 0)
             z == RoundDiv((v - Scale * Pow2(k)) * Scale, v + Scale * Pow2(k))
         IN  k * Ln2 + 2 * AtanhSeries(z, z, 1, 0)
    ELSE LET j == LnDown(v, 0)
             z == RoundDiv((v * Pow2(j) - Scale) * Scale, v * Pow2(j) + Scale)
         IN  2 * AtanhSeries(z, z, 1, 0) - j * Ln2

ln(x) ==
    CASE x.c = "nan" -> NaN
      [] x.c = "nzero" -> NInf
      [] x.c = "inf" -> IF x.v = 1 THEN PInf ELSE NaN
      [] OTHER -> IF x.v = 0 THEN NInf
                  ELSE IF x.v < 0 THEN NaN
                  ELSE Fin(LnFix(x.v))

RECURSIVE ExpSeries(_, _, _, _)
ExpSeries(r, term, i, acc) ==
    IF term = 0 \/ i > 12 THEN acc
    ELSE ExpSeries(r, (term * r) \div (Scale * i), i + 1, acc + term)

ExpMaxK == 19        \* exp overflows to +inf past 2^(ExpMaxK + 1)

ExpFix(y) ==
    LET k == y \div Ln2
        r == y - k * Ln2
        e == ExpSeries(r, Scale, 1, 0)
    IN  IF k >= 0 THEN e * Pow2(k) ELSE e \div Pow2(-k)

exp(x) ==
    CASE x.c = "nan" -> NaN
      [] x.c = "nzero" -> One
      [] x.c = "inf" -> IF x.v = 1 THEN PInf ELSE Zero
      [] OTHER -> IF x.v \div Ln2 > ExpMaxK THEN PInf
                  ELSE IF x.v \div Ln2 < -ExpMaxK THEN Zero
                  ELSE Fin(ExpFix(x.v))

(***************************************************************************)
(* Results: an interval, one of the CIError kinds, or a panic.             *)
(***************************************************************************)
Res(kind, low, high, i1, i2) ==
    [kind |-> kind, low |-> low, high |-> high, i1 |-> i1, i2 |-> i2]
NoResult == Res("NoResult", Zero, Zero, 0, 0)
Panic == Res("Panic", Zero, Zero, 0, 0)
InvalidInputData == Res("InvalidInputData", Zero, Zero, 0, 0)
TooFewSamples(n) == Res("TooFewSamples", Zero, Zero, n, 0)
InvalidSuccesses(successes, population) ==
    Res("InvalidSuccesses", Zero, Zero, successes, population)
InvalidConfidenceLevel(level) == Res("InvalidConfidenceLevel", level, Zero, 0, 0)
TooFewSuccesses(successes, population, f) ==
    Res("TooFewSuccesses", f, Zero, successes, population)
TooFewFailures(failures, population, f) ==
    Res("TooFewFailures", f, Zero, failures, population)

(***************************************************************************)
(* The interval value type: the ordered constructor stores the smaller     *)
(* bound first; bounds that do not compare (NaN) are stored as given.      *)
(***************************************************************************)
Interval_new(low, high) ==
    IF fgt(low, high) THEN <<high, low>> ELSE <<low, high>>
Interval_from(pair) == Interval_new(pair[1], pair[2])
Ok(interval) == Res("Interval", interval[1], interval[2], 0, 0)

(***************************************************************************)
(* Critical values.  The inverse CDFs of the normal and of Student's t     *)
(* distribution come from a library; they are tabulated here as monotone   *)
(* step functions of the probability.                                      *)
(***************************************************************************)
NormalInvUpper(p) ==
    IF fge(p, One) THEN PInf
    ELSE IF fge(p, Ratio(995, 1000)) THEN Ratio(2576, 1000)
    ELSE IF fge(p, Ratio(99, 100)) THEN Ratio(2326, 1000)
    ELSE IF fge(p, Ratio(975, 1000)) THEN Ratio(1960, 1000)
    ELSE IF fge(p, Ratio(95, 100)) THEN Ratio(1645, 1000)
    ELSE IF fge(p, Ratio(9, 10)) THEN Ratio(1282, 1000)
    ELSE IF fge(p, Ratio(8, 10)) THEN Ratio(842, 1000)
    ELSE IF fge(p, Ratio(75, 100)) THEN Ratio(674, 1000)
    ELSE IF fge(p, Ratio(7, 10)) THEN Ratio(524, 1000)
    ELSE IF fge(p, Ratio(6, 10)) THEN Ratio(253, 1000)
    ELSE Zero

Normal_inverse_cdf(p) ==
    IF is_nan(p) THEN NaN
    ELSE IF fge(p, Ratio(5, 10)) THEN NormalInvUpper(p)
    ELSE fneg(NormalInvUpper(fsub(One, p)))

StudentsTInvUpper(p, df) ==
    IF fge(p, One) THEN PInf
    ELSE IF fge(p, Ratio(975, 1000))
         THEN CASE df = 1 -> Ratio(12706, 1000)
                [] df = 2 -> Ratio(4303, 1000)
                [] df = 3 -> Ratio(3182, 1000)
                [] df = 4 -> Ratio(2776, 1000)
                [] OTHER -> Ratio(2571, 1000)
    ELSE IF fge(p, Ratio(75, 100))
         THEN CASE df = 1 -> Ratio(1000, 1000)
                [] df = 2 -> Ratio(816, 1000)
                [] df = 3 -> Ratio(765, 1000)
                [] df = 4 -> Ratio(741, 1000)
                [] OTHER -> Ratio(727, 1000)
    ELSE Zero

StudentsT_inverse_cdf(p, df) ==
    IF is_nan(p) \/ df < 1 THEN NaN
    ELSE IF fge(p, Ratio(5, 10)) THEN StudentsTInvUpper(p, df)
    ELSE fneg(StudentsTInvUpper(fsub(One, p), df))

\* z_value and t_value assert that the level is in (0,1); a call that fails
\* the assertion panics.
confidence_assert(confidence) == fgt(confidence, Zero) /\ flt(confidence, One)

z_value(confidence, two_sided) ==
    LET alpha == fsub(One, confidence)
        alpha_prime == IF two_sided THEN fdiv(alpha, FromInt(2)) ELSE alpha
    IN  Normal_inverse_cdf(fsub(One, alpha_prime))

z_value_two_sided(confidence) == z_value(confidence, TRUE)

t_value(confidence, degrees_of_freedom, two_sided) ==
    LET alpha == fsub(One, confidence)
        alpha_prime == IF two_sided THEN fdiv(alpha, FromInt(2)) ELSE alpha
    IN  StudentsT_inverse_cdf(fsub(One, alpha_prime), degrees_of_freedom)

new_two_sided(level) == [level |-> level, two_sided |-> TRUE]

(***************************************************************************)
(* mean.rs                                                                 *)
(***************************************************************************)
MeanKinds == {"Arithmetic", "Geometric", "Harmonic"}

f_valid(kind, x) ==
    IF kind = "Arithmetic" THEN ~is_nan(x) /\ ~is_infinite(x)
    ELSE is_sign_positive(x) \/ ~is_zero(x)

f_transform(kind, x) ==
    CASE kind = "Arithmetic" -> x
      [] kind = "Geometric" -> ln(x)
      [] kind = "Harmonic" -> recip(x)

f_inverse(kind, x, y) ==
    CASE kind = "Arithmetic" -> <<x, y>>
      [] kind = "Geometric" -> <<exp(x), exp(y)>>
      [] kind = "Harmonic" -> <<recip(y), recip(x)>>

kahan_add(current_sum, x, compensation) ==
    LET sum == current_sum
        c == compensation
        y == fsub(x, c)
        t == fadd(sum, y)
    IN  [current_sum |-> t, compensation |-> fsub(fsub(t, sum), y)]

ZeroSums == [sum |-> Zero, sum_c |-> Zero, sum_sq |-> Zero, sum_sq_c |-> Zero]

loop_rejects_never(kind, x) == FALSE

loop_rejects(kind, x) == ~f_valid(kind, x)

loop_accumulate(kind, s, x) ==
    LET x_prime == f_transform(kind, x)
        k1 == kahan_add(s.sum, x_prime, s.sum_c)
        k2 == kahan_add(s.sum_sq, fmul(x_prime, x_prime), s.sum_sq_c)
    IN  [sum |-> k1.current_sum, sum_c |-> k1.compensation,
         sum_sq |-> k2.current_sum, sum_sq_c |-> k2.compensation]

too_few_samples_below_one(population) == population < 1

too_few_samples(population) == population < 2

ci_bounds(confidence, s, population) ==
    LET t == t_value(confidence.level, population - 1, confidence.two_sided)
        n == FromInt(population)
        mean == fdiv(s.sum, n)
        variance == fdiv(fsub(s.sum_sq, fdiv(fmul(s.sum, s.sum), n)), fsub(n, One))
        std_dev == fsqrt(variance)
    IN  <<fsub(mean, fdiv(fmul(t, std_dev), fsqrt(n))),
          fadd(mean, fdiv(fmul(t, std_dev), fsqrt(n)))>>

ci_after_loop(kind, confidence, s, population) ==
    IF too_few_samples(population) THEN TooFewSamples(population)
    ELSE LET b == ci_bounds(confidence, s, population)
         IN  Ok(Interval_from(f_inverse(kind, b[1], b[2])))

(***************************************************************************)
(* proportion.rs                                                           *)
(***************************************************************************)
invalid_confidence(confidence) == fle(confidence, Zero) \/ fge(confidence, One)

wilson_too_few_successes(successes) == successes < 2
wilson_too_few_failures_below_one(population, successes) ==
    population - successes < 1

wilson_too_few_failures(population, successes) == population - successes < 2

ci_wilson(confidence, population, successes) ==
    IF successes > population THEN InvalidSuccesses(successes, population)
    ELSE IF invalid_confidence(confidence) THEN InvalidConfidenceLevel(confidence)
    ELSE LET n == FromInt(population)
             n_s == FromInt(successes)
             n_f == fsub(n, n_s)
         IN  IF wilson_too_few_successes(successes)
             THEN TooFewSuccesses(successes, population, n_s)
             ELSE IF wilson_too_few_failures(population, successes)
             THEN TooFewFailures(population - successes, population, n_f)
             ELSE IF ~confidence_assert(confidence) THEN Panic
             ELSE LET z == z_value_two_sided(confidence)
                      z_2 == fmul(z, z)
                      mean == fdiv(fadd(n_s, fdiv(z_2, FromInt(2))), fadd(n, z_2))
                      span == fmul(fdiv(z, fadd(n, z_2)),
                                   fsqrt(fadd(fdiv(fmul(n_s, n_f), n),
                                              fdiv(z_2, FromInt(4)))))
                  IN  Ok(Interval_new(fsub(mean, span), fadd(mean, span)))

ci_z_normal(confidence, population, successes) ==
    IF successes > population THEN InvalidSuccesses(successes, population)
    ELSE IF invalid_confidence(confidence) THEN InvalidConfidenceLevel(confidence)
    ELSE LET n == FromInt(population)
             x == FromInt(successes)
             p == fdiv(x, n)
             q == fsub(One, p)
         IN  IF flt(fmul(n, p), FromInt(10))
             THEN TooFewSuccesses(successes, population, fmul(n, p))
             ELSE IF flt(fmul(n, q), FromInt(10))
             THEN TooFewFailures(population - successes, population, fmul(n, q))
             ELSE IF ~confidence_assert(confidence) THEN Panic
             ELSE LET std_dev == fsqrt(fdiv(fmul(p, q), n))
                      z == z_value_two_sided(confidence)
                  IN  Ok(Interval_new(fsub(p, fmul(z, std_dev)),
                                      fadd(p, fmul(z, std_dev))))

ci(confidence, population, successes) == ci_wilson(confidence, population, successes)

count_successes_always(x, successes) == successes + 1

count_successes(x, successes) == IF x THEN successes + 1 ELSE successes

cond(threshold, x) == x <= threshold

(***************************************************************************)
(* quantile.rs: confidence interval on a quantile from order statistics.   *)
(* The elements are of a totally ordered type T; here T = f64 without     *)
(* NaN, so that partial_cmp never fails.                                   *)
(***************************************************************************)
NoneResult == Res("None", Zero, Zero, 0, 0)
Some(interval) == Res("Some", interval[1], interval[2], 0, 0)
Interval_new_unordered_unchecked(low, high) == <<low, high>>

\* crate::stats::z_value takes the Confidence value as a whole
stats_z_value(confidence) == z_value(confidence.level, confidence.two_sided)

\* f64::ceil; a value in (-1, 0) rounds up to -0.0
fceil(x) ==
    IF x.c # "fin" THEN x
    ELSE LET k == -((-x.v) \div Scale)
         IN  IF k = 0 /\ x.v < 0 THEN NZero ELSE Fin(k * Scale)

\* usize is modelled 31 bits wide (the widest that TLC integers allow)
usize_MAX == 2147483647

\* `as usize`: a saturating cast, NaN and negative values give 0
as_usize(x) ==
    CASE x.c = "nan" -> 0
      [] x.c = "nzero" -> 0
      [] x.c = "inf" -> IF x.v = 1 THEN usize_MAX ELSE 0
      [] OTHER -> IF x.v < 0 THEN 0 ELSE x.v \div Scale

\* `a - b` on usize: with overflow checks (debug builds) an underflow panics,
\* without them (release builds) it wraps around
usize_sub(a, b, overflow_checks) ==
    IF a >= b THEN [panic |-> FALSE, wrapped |-> FALSE, v |-> a - b]
    ELSE IF overflow_checks THEN [panic |-> TRUE, wrapped |-> FALSE, v |-> 0]
    ELSE [panic |-> FALSE, wrapped |-> TRUE, v |-> usize_MAX - (b - a - 1)]

\* slice::get with a 0-based index
get(sorted, i) == IF i < Len(sorted) THEN <<sorted[i + 1]>> ELSE <<>>

quantile_assert(quantile) == fgt(quantile, Zero) /\ flt(quantile, One)
too_short_below_two(len) == len < 2
too_short(len) == len < 3

mid_span(confidence, len, quantile) ==
    LET z == stats_z_value(confidence)
        q == quantile
        n == FromInt(len)
    IN  fmul(z, fsqrt(fmul(fmul(n, q), fsub(One, q))))

lo_rank(confidence, len, quantile) ==
    fceil(fsub(fmul(FromInt(len), quantile), mid_span(confidence, len, quantile)))
hi_rank_without_span(confidence, len, quantile) ==
    fceil(fmul(FromInt(len), quantile))
hi_rank(confidence, len, quantile) ==
    fceil(fadd(fmul(FromInt(len), quantile), mid_span(confidence, len, quantile)))

NoRanks ==
    [reached |-> FALSE,
     lo |-> [panic |-> FALSE, wrapped |-> FALSE, v |-> 0],
     hi |-> [panic |-> FALSE, wrapped |-> FALSE, v |-> 0]]

\* the locals lo and hi of ci_sorted_unchecked
rank_indices(confidence, sorted, quantile, overflow_checks) ==
    IF ~quantile_assert(quantile) \/ too_short(Len(sorted))
       \/ ~confidence_assert(confidence.level)
    THEN NoRanks
    ELSE [reached |-> TRUE,
          lo |-> usize_sub(as_usize(lo_rank(confidence, Len(sorted), quantile)),
                           1, overflow_checks),
          hi |-> usize_sub(as_usize(hi_rank(confidence, Len(sorted), quantile)),
                           1, overflow_checks)]

ci_sorted_unchecked(confidence, sorted, quantile, overflow_checks) ==
    IF ~quantile_assert(quantile) THEN Panic
    ELSE IF too_short(Len(sorted)) THEN NoneResult
    ELSE IF ~confidence_assert(confidence.level) THEN Panic
    ELSE LET r == rank_indices(confidence, sorted, quantile, overflow_checks)
             lo == get(sorted, r.lo.v)
             hi == get(sorted, r.hi.v)
         IN  IF r.lo.panic \/ r.hi.panic THEN Panic
             ELSE IF lo # <<>> /\ hi # <<>>
             THEN Some(Interval_new_unordered_unchecked(lo[1], hi[1]))
             ELSE NoneResult

\* slice::sort_by with  a.partial_cmp(b).unwrap() : a stable ascending sort
RECURSIVE insert(_, _)
insert(s, x) ==
    IF s = <<>> THEN <<x>>
    ELSE IF flt(x, Head(s)) THEN <<x>> \o s
    ELSE <<Head(s)>> \o insert(Tail(s), x)

sort_by_nothing(v) == v

RECURSIVE sort_by(_)
sort_by(v) ==
    IF v = <<>> THEN <<>>
    ELSE insert(sort_by(SubSeq(v, 1, Len(v) - 1)), v[Len(v)])

quantile_ci(confidence, data, quantile, overflow_checks) ==
    LET sorted == sort_by(data)
    IN  ci_sorted_unchecked(confidence, sorted, quantile, overflow_checks)

(***************************************************************************)
(* State: one call of a public function, from its arguments to its result. *)
(***************************************************************************)
VARIABLES
    op,          \* the function called
    confidence,  \* its confidence argument
    data,        \* its sample argument (empty for the count-based calls)
    threshold,   \* ci_if: the predicate is  x <= threshold
    pos,         \* number of items drawn from the sample's iterator
    sums,        \* ci_with_transforms: sum, sum_c, sum_sq, sum_sq_c
    population,  \* population counter, or the population argument
    successes,   \* successes counter, or the successes argument
    pc,          \* "loop", "call" or "done"
    result,      \* the value returned
    quantile,    \* quantile: the quantile argument
    sorted,      \* quantile: the slice handed to ci_sorted_unchecked
    ranks,       \* quantile: the locals lo and hi
    overflow_checks, \* whether the build checks integer overflow
    threads,     \* concurrent callers: arguments, position and result of each
    locals       \* concurrent callers: the local variables of each call

vars ==
    <<op, confidence, data, threshold, pos, sums, population, successes, pc,
      result, quantile, sorted, ranks, overflow_checks, threads, locals>>

SeqsUpTo(S, n) == UNION {[1..k -> S] : k \in 0..n}

FloatInputs ==
    {NaN, PInf, NZero, Zero, FromInt(-2), Ratio(112, 100), FromInt(2)}
MeanConfidences == {new_two_sided(Ratio(95, 100)), new_two_sided(Ratio(5, 10))}
LevelInputs == {NaN, Zero, Ratio(5, 10), Ratio(95, 100), One, Ratio(15, 10)}
CountedLevels == {NaN, Ratio(95, 100), One}
CountCalls == {"ci", "ci_wilson", "ci_z_normal"}
SampleCalls == {"ci_true", "ci_if"}

InitMean ==
    /\ op \in MeanKinds
    /\ confidence \in MeanConfidences
    /\ data \in SeqsUpTo(FloatInputs, MaxLen)
    /\ threshold = 0
    /\ population = 0
    /\ successes = 0
    /\ pc = "loop"

InitCount ==
    /\ op \in CountCalls
    /\ confidence \in LevelInputs
    /\ data = <<>>
    /\ threshold = 0
    /\ population \in 0..MaxPop
    /\ successes \in 0..(MaxPop + 1)
    /\ pc = "call"

InitSample ==
    /\ \/ op = "ci_true" /\ data \in SeqsUpTo(BOOLEAN, MaxBools) /\ threshold = 0
       \/ op = "ci_if" /\ data \in SeqsUpTo(1..2, MaxBools) /\ threshold \in 0..2
    /\ confidence \in CountedLevels
    /\ population = 0
    /\ successes = 0
    /\ pc = "loop"

\* the sample of the documentation examples, sorted and shuffled
DocData ==
    [i \in 1..15 |-> FromInt(i)]
DocData2 ==
    [i \in 1..15 |->
        FromInt(<<2, 14, 13, 6, 8, 4, 15, 9, 3, 11, 10, 7, 1, 12, 5>>[i])]
QuantileCalls == {"quantile::ci_sorted_unchecked", "quantile::ci"}
QuantileConfidences ==
    {new_two_sided(Ratio(95, 100)), new_two_sided(Ratio(8, 10)),
     new_two_sided(Ratio(5, 10))}
QuantileInputs == {Ratio(2, 10), Ratio(5, 10), Ratio(9, 10), One}
Samples ==
    SeqsUpTo({FromInt(k) : k \in 1..3}, MaxSample) \cup {DocData, DocData2}
IsSorted(s) == \A i \in 1..(Len(s) - 1) : fle(s[i], s[i + 1])

InitQuantile ==
    /\ op \in QuantileCalls
    /\ confidence \in QuantileConfidences
    /\ quantile \in QuantileInputs
    /\ data \in Samples
    /\ op = "quantile::ci_sorted_unchecked" => IsSorted(data)
    /\ overflow_checks \in BOOLEAN
    /\ threshold = 0
    /\ population = 0
    /\ successes = 0
    /\ pc = "call"

Init ==
    /\ \/ /\ InitMean \/ InitCount \/ InitSample
          /\ quantile = Zero
          /\ overflow_checks = FALSE
       \/ InitQuantile
    /\ pos = 0
    /\ sums = ZeroSums
    /\ result = NoResult
    /\ sorted = <<>>
    /\ ranks = NoRanks
    /\ threads = <<>>
    /\ locals = <<>>

Item(i) == IF op = "ci_if" THEN cond(threshold, data[i]) ELSE data[i]

MeanReject ==
    /\ pc = "loop" /\ op \in MeanKinds /\ pos < Len(data)
    /\ loop_rejects(op, data[pos + 1])
    /\ pos' = pos + 1
    /\ result' = InvalidInputData
    /\ pc' = "done"
    /\ UNCHANGED <<op, confidence, data, threshold, sums, population, successes,
                   quantile, sorted, ranks, overflow_checks, threads, locals>>

MeanAccumulate ==
    /\ pc = "loop" /\ op \in MeanKinds /\ pos < Len(data)
    /\ ~loop_rejects(op, data[pos + 1])
    /\ pos' = pos + 1
    /\ sums' = loop_accumulate(op, sums, data[pos + 1])
    /\ population' = population + 1
    /\ UNCHANGED <<op, confidence, data, threshold, successes, pc, result,
                   quantile, sorted, ranks, overflow_checks, threads, locals>>

MeanFinish ==
    /\ pc = "loop" /\ op \in MeanKinds /\ pos = Len(data)
    /\ result' = ci_after_loop(op, confidence, sums, population)
    /\ pc' = "done"
    /\ UNCHANGED <<op, confidence, data, threshold, pos, sums, population, successes,
                   quantile, sorted, ranks, overflow_checks, threads, locals>>

CountItem ==
    /\ pc = "loop" /\ op \in SampleCalls /\ pos < Len(data)
    /\ pos' = pos + 1
    /\ population' = population + 1
    /\ successes' = count_successes(Item(pos + 1), successes)
    /\ UNCHANGED <<op, confidence, data, threshold, sums, pc, result,
                   quantile, sorted, ranks, overflow_checks, threads, locals>>

CountFinish ==
    /\ pc = "loop" /\ op \in SampleCalls /\ pos = Len(data)
    /\ result' = ci(confidence, population, successes)
    /\ pc' = "done"
    /\ UNCHANGED <<op, confidence, data, threshold, pos, sums, population, successes,
                   quantile, sorted, ranks, overflow_checks, threads, locals>>

Call ==
    /\ pc = "call" /\ op \in CountCalls
    /\ result' = CASE op = "ci" -> ci(confidence, population, successes)
                   [] op = "ci_wilson" -> ci_wilson(confidence, population, successes)
                   [] op = "ci_z_normal" -> ci_z_normal(confidence, population, successes)
    /\ pc' = "done"
    /\ UNCHANGED <<op, confidence, data, threshold, pos, sums, population, successes,
                   quantile, sorted, ranks, overflow_checks, threads, locals>>

QuantileSorted ==
    /\ pc = "call" /\ op = "quantile::ci_sorted_unchecked"
    /\ sorted' = data
    /\ ranks' = rank_indices(confidence, data, quantile, overflow_checks)
    /\ result' = ci_sorted_unchecked(confidence, data, quantile, overflow_checks)
    /\ pc' = "done"
    /\ UNCHANGED <<op, confidence, data, threshold, pos, sums, population,
                   successes, quantile, overflow_checks, threads, locals>>

QuantileCi ==
    /\ pc = "call" /\ op = "quantile::ci"
    /\ sorted' = sort_by(data)
    /\ ranks' = rank_indices(confidence, sorted', quantile, overflow_checks)
    /\ result' = quantile_ci(confidence, data, quantile, overflow_checks)
    /\ pc' = "done"
    /\ UNCHANGED <<op, confidence, data, threshold, pos, sums, population,
                   successes, quantile, overflow_checks, threads, locals>>

Next ==
    \/ MeanReject
    \/ MeanAccumulate
    \/ MeanFinish
    \/ CountItem
    \/ CountFinish
    \/ Call
    \/ QuantileSorted
    \/ QuantileCi

Spec == Init /\ [][Next]_vars

(***************************************************************************)
(* Two callers running one call each, their steps interleaved.  What a     *)
(* call keeps between its steps are the local variables of its own         *)
(* activation: the accumulators of ci_with_transforms, the counters of     *)
(* ci_true, the sorted copy of quantile::ci.                               *)
(***************************************************************************)
Tids == {1, 2}
frame_shared(i) == 1
\* the activation that holds the locals of the call of caller i
frame(i) == i

ZeroLocals == [sums |-> ZeroSums, population |-> 0, successes |-> 0, sorted |-> <<>>]
Args(o, c, d, q) ==
    [op |-> o, confidence |-> c, data |-> d, quantile |-> q,
     pos |-> 0, pc |-> "start", result |-> NoResult]
ConcCalls ==
    {Args(k, new_two_sided(Ratio(95, 100)), d, Zero) :
        k \in {"Arithmetic", "Harmonic"},
        d \in SeqsUpTo({NaN, Ratio(112, 100), FromInt(2)}, MaxConcLen)}
    \cup {Args("ci_true", Ratio(95, 100), d, Zero) :
        d \in SeqsUpTo(BOOLEAN, MaxConcLen)}
    \cup {Args("quantile::ci", new_two_sided(Ratio(5, 10)), d, Ratio(5, 10)) :
        d \in [1..(MaxConcLen + 1) -> {FromInt(1), FromInt(3)}]}

InitConc ==
    /\ threads \in [Tids -> ConcCalls]
    /\ locals = [i \in Tids |-> ZeroLocals]
    /\ overflow_checks \in BOOLEAN
    /\ op = "none" /\ confidence = Zero /\ data = <<>> /\ threshold = 0
    /\ pos = 0 /\ sums = ZeroSums /\ population = 0 /\ successes = 0
    /\ pc = "done" /\ result = NoResult /\ quantile = Zero
    /\ sorted = <<>> /\ ranks = NoRanks

Me(i) == threads[i]
Mine(i) == locals[frame(i)]
ConcFrame ==
    UNCHANGED <<op, confidence, data, threshold, pos, sums, population,
                successes, pc, result, quantile, sorted, ranks, overflow_checks>>

\* the `let mut` declarations at the head of a call
ConcEnter(i) ==
    /\ Me(i).pc = "start"
    /\ locals' = [locals EXCEPT ![frame(i)] =
            [ZeroLocals EXCEPT !.sorted =
                IF Me(i).op = "quantile::ci" THEN Me(i).data ELSE <<>>]]
    /\ threads' = [threads EXCEPT ![i].pc =
            IF Me(i).op = "quantile::ci" THEN "sort" ELSE "loop"]
    /\ ConcFrame

ConcMeanReject(i) ==
    /\ Me(i).pc = "loop" /\ Me(i).op \in MeanKinds /\ Me(i).pos < Len(Me(i).data)
    /\ loop_rejects(Me(i).op, Me(i).data[Me(i).pos + 1])
    /\ threads' = [threads EXCEPT ![i].pos = @ + 1, ![i].pc = "done",
                                  ![i].result = InvalidInputData]
    /\ UNCHANGED locals
    /\ ConcFrame

ConcMeanAccumulate(i) ==
    /\ Me(i).pc = "loop" /\ Me(i).op \in MeanKinds /\ Me(i).pos < Len(Me(i).data)
    /\ ~loop_rejects(Me(i).op, Me(i).data[Me(i).pos + 1])
    /\ locals' = [locals EXCEPT
            ![frame(i)].sums =
                loop_accumulate(Me(i).op, @, Me(i).data[Me(i).pos + 1]),
            ![frame(i)].population = @ + 1]
    /\ threads' = [threads EXCEPT ![i].pos = @ + 1]
    /\ ConcFrame

ConcMeanFinish(i) ==
    /\ Me(i).pc = "loop" /\ Me(i).op \in MeanKinds /\ Me(i).pos = Len(Me(i).data)
    /\ threads' = [threads EXCEPT ![i].pc = "done",
            ![i].result = ci_after_loop(Me(i).op, Me(i).confidence,
                                        Mine(i).sums, Mine(i).population)]
    /\ UNCHANGED locals
    /\ ConcFrame

ConcCountItem(i) ==
    /\ Me(i).pc = "loop" /\ Me(i).op = "ci_true" /\ Me(i).pos < Len(Me(i).data)
    /\ locals' = [locals EXCEPT
            ![frame(i)].population = @ + 1,
            ![frame(i)].successes =
                count_successes(Me(i).data[Me(i).pos + 1], @)]
    /\ threads' = [threads EXCEPT ![i].pos = @ + 1]
    /\ ConcFrame

ConcCountFinish(i) ==
    /\ Me(i).pc = "loop" /\ Me(i).op = "ci_true" /\ Me(i).pos = Len(Me(i).data)
    /\ threads' = [threads EXCEPT ![i].pc = "done",
            ![i].result = ci(Me(i).confidence, Mine(i).population,
                             Mine(i).successes)]
    /\ UNCHANGED locals
    /\ ConcFrame

ConcSort(i) ==
    /\ Me(i).pc = "sort"
    /\ locals' = [locals EXCEPT ![frame(i)].sorted = sort_by(@)]
    /\ threads' = [threads EXCEPT ![i].pc = "call"]
    /\ ConcFrame

ConcQuantileFinish(i) ==
    /\ Me(i).pc = "call"
    /\ threads' = [threads EXCEPT ![i].pc = "done",
            ![i].result = ci_sorted_unchecked(Me(i).confidence, Mine(i).sorted,
                                              Me(i).quantile, overflow_checks)]
    /\ UNCHANGED locals
    /\ ConcFrame

NextConc ==
    \E i \in Tids :
        \/ ConcEnter(i)
        \/ ConcMeanReject(i)
        \/ ConcMeanAccumulate(i)
        \/ ConcMeanFinish(i)
        \/ ConcCountItem(i)
        \/ ConcCountFinish(i)
        \/ ConcSort(i)
        \/ ConcQuantileFinish(i)

SpecConc == InitConc /\ [][NextConc]_vars

(***************************************************************************)
(* Vocabulary of the claims.                                               *)
(***************************************************************************)
Done == pc = "done"
RejectedAt(kind, d) == {i \in 1..Len(d) : ~f_valid(kind, d[i])}
FirstRejected(kind, d) ==
    CHOOSE i \in RejectedAt(kind, d) : \A j \in RejectedAt(kind, d) : i <= j
AllAccepted(kind, d) == RejectedAt(kind, d) = {}
NonPositive(x) == fle(x, Zero)
StrictlyPositive(x) == fgt(x, Zero)
StrictlyInUnit(level) == fgt(level, Zero) /\ flt(level, One)
TooFewKinds == {"TooFewSuccesses", "TooFewFailures"}
NumTrue == Cardinality({i \in 1..Len(data) : Item(i)})

\* The inputs the specification calls valid for the function called.
ValidInput ==
    CASE op = "Arithmetic" ->
            \A i \in 1..Len(data) : ~is_nan(data[i]) /\ ~is_infinite(data[i])
      [] op \in {"Geometric", "Harmonic"} ->
            \A i \in 1..Len(data) : StrictlyPositive(data[i]) /\ ~is_infinite(data[i])
      [] OTHER -> successes <= population /\ StrictlyInUnit(confidence)

\* C1: a mean-CI call on a sample with an element the validity predicate
\* rejects never draws an element past the first rejected one, and returns
\* InvalidInputData having drawn exactly up to it, whatever number of valid
\* elements came before.
C1_ShortCircuit ==
    (op \in MeanKinds /\ ~AllAccepted(op, data)) =>
        /\ pos <= FirstRejected(op, data)
        /\ Done => /\ result = InvalidInputData
                   /\ pos = FirstRejected(op, data)
                   /\ population = pos - 1

C1_Witness ==
    /\ Done /\ op \in MeanKinds /\ Len(data) = 3
    /\ ~AllAccepted(op, data) /\ FirstRejected(op, data) = 2
    /\ result.kind = "InvalidInputData" /\ pos = 2

C3_OnlyStrictlyPositive ==
    (Done /\ op \in {"Geometric", "Harmonic"}
          /\ \E i \in 1..Len(data) : NonPositive(data[i]))
        => result.kind = "InvalidInputData"

\* C4: a mean-CI call on an empty sample returns InvalidInputData.
C4_EmptyIsInvalidInputData ==
    (Done /\ op \in MeanKinds /\ Len(data) = 0) => result.kind = "InvalidInputData"

\* C5: every interval returned for a valid input (finite elements for the
\* arithmetic mean, strictly positive ones for the geometric and harmonic
\* means; successes <= population and a confidence level in (0,1) for the
\* proportions) has its low bound <= its high bound.
C5_LowLeHigh ==
    (Done /\ result.kind = "Interval" /\ ValidInput)
        => fle(result.low, result.high)

\* C6: ci_wilson and ci, on arguments that passed the input validation,
\* return TooFewSuccesses when successes < 2, otherwise TooFewFailures when
\* population - successes < 2; they return an interval exactly when
\* successes <= population, the confidence level is strictly in (0,1),
\* successes >= 2 and population - successes >= 2.
C6_WilsonGate ==
    (Done /\ op \in {"ci", "ci_wilson"}) =>
        /\ result.kind \notin {"InvalidSuccesses", "InvalidConfidenceLevel"} =>
              /\ successes < 2 => result.kind = "TooFewSuccesses"
              /\ (successes >= 2 /\ population - successes < 2)
                    => result.kind = "TooFewFailures"
        /\ (result.kind = "Interval") <=>
              /\ successes <= population
              /\ StrictlyInUnit(confidence)
              /\ successes >= 2
              /\ population - successes >= 2
        /\ (result.kind = "Interval") => population >= 4

C6_Witness ==
    /\ Done /\ op = "ci_wilson" /\ population = 4 /\ successes = 2
    /\ result.kind = "Interval"

\* C7: ci_wilson and ci_z_normal return InvalidSuccesses(successes,
\* population) when successes > population, and otherwise
\* InvalidConfidenceLevel(level) when the level is not strictly in (0,1).
C7_ValidationFirst ==
    (Done /\ op \in {"ci_wilson", "ci_z_normal"}) =>
        /\ successes > population => result = InvalidSuccesses(successes, population)
        /\ (successes <= population /\ ~StrictlyInUnit(confidence))
              => result = InvalidConfidenceLevel(confidence)

\* C8: ci_z_normal returns an interval only with at least 10 successes and
\* at least 10 failures; on every other validated input it returns
\* TooFewSuccesses or TooFewFailures.
C8_NormalGate ==
    (Done /\ op = "ci_z_normal" /\ successes <= population
          /\ StrictlyInUnit(confidence)) =>
        /\ (result.kind = "Interval")
              => (successes >= 10 /\ population - successes >= 10)
        /\ (successes < 10 \/ population - successes < 10)
              => result.kind \in TooFewKinds

\* C9: whenever ci_z_normal returns an interval, ci_wilson returns an
\* interval for the same arguments.
C9_WilsonMorePermissive ==
    (Done /\ op = "ci_z_normal" /\ result.kind = "Interval")
        => ci_wilson(confidence, population, successes).kind = "Interval"

\* C10: ci_true and ci_if return what ci returns for the length of the
\* sample and the number of its elements that are true (that satisfy the
\* predicate); successes <= population at every step of the count, and the
\* result is never InvalidSuccesses.
C10_CountReduces ==
    (op \in SampleCalls) =>
        /\ successes <= population
        /\ population = pos
        /\ Done => /\ result = ci(confidence, Len(data), NumTrue)
                   /\ result.kind # "InvalidSuccesses"

C10_Witness ==
    /\ Done /\ op = "ci_if" /\ Len(data) = 5 /\ NumTrue = 2
    /\ result.kind = "Interval"

(***************************************************************************)
(* Vocabulary of the quantile claims.                                      *)
(***************************************************************************)
QuantileDone == Done /\ op \in QuantileCalls
\* the 1-indexed ranks, before their conversion to slice indices
LoRank == lo_rank(confidence, Len(data), quantile)
HiRank == hi_rank(confidence, Len(data), quantile)
RankInRange(r) == fge(r, One) /\ fle(r, FromInt(Len(data)))
LowerRankNotPositive == ~fge(LoRank, One)

\* C11: in ci_sorted_unchecked and ci, whenever a computed rank falls
\* outside the valid index range, the lower rank being zero or negative
\* included, the call returns None; it neither aborts on an arithmetic
\* underflow nor uses a wrapped-around unsigned index.
C11_OutOfRangeIsNone ==
    (QuantileDone /\ ranks.reached
        /\ (~RankInRange(LoRank) \/ ~RankInRange(HiRank)))
    => /\ result = NoneResult
       /\ ~ranks.lo.panic /\ ~ranks.hi.panic
       /\ ~ranks.lo.wrapped /\ ~ranks.hi.wrapped

Ascending(d) ==
    [k \in 1..Len(d) |->
        CHOOSE e \in {d[i] : i \in 1..Len(d)} :
            /\ Cardinality({i \in 1..Len(d) : flt(d[i], e)}) < k
            /\ k <= Cardinality({i \in 1..Len(d) : fle(d[i], e)})]
SameAsOnSorted ==
    (QuantileDone /\ op = "quantile::ci")
    => /\ sorted = Ascending(data)
       /\ result = ci_sorted_unchecked(confidence, Ascending(data), quantile,
                                       overflow_checks)

\* C13: quantile::ci does not depend on the order of its input: on every
\* permutation of a sample it returns what ci_sorted_unchecked returns on the
\* sorted sample, and it leaves the caller's slice as it was (it sorts a copy).
C13_OrderInvariant == [](SameAsOnSorted) /\ [][data' = data]_vars
C13_Witness ==
    /\ QuantileDone /\ op = "quantile::ci" /\ ~IsSorted(data)
    /\ result.kind = "Some" /\ sorted # data

\* the claimed ranks: n*q -/+ z*sqrt(n*q*(1-q)), rounded up to an integer
ClaimedMidSpan ==
    fmul(z_value_two_sided(confidence.level),
         fsqrt(fmul(fmul(FromInt(Len(data)), quantile), fsub(One, quantile))))
CeilingOf(x) ==
    CHOOSE k \in -(2 * Len(data) + 2)..(2 * Len(data) + 2) :
        fle(x, FromInt(k)) /\ flt(FromInt(k - 1), x)
ClaimedLow ==
    CeilingOf(fsub(fmul(FromInt(Len(data)), quantile), ClaimedMidSpan))
ClaimedHigh ==
    CeilingOf(fadd(fmul(FromInt(Len(data)), quantile), ClaimedMidSpan))
SortedCallOn(d, level, q) ==
    /\ Done /\ op = "quantile::ci_sorted_unchecked"
    /\ data = d /\ confidence = new_two_sided(level) /\ quantile = q
ClosedInterval(low, high) == Some(<<FromInt(low), FromInt(high)>>)

\* C14: when both ranks are in range, ci_sorted_unchecked returns the order
\* statistics at the 1-indexed ranks ceil(n*q - midSpan) and
\* ceil(n*q + midSpan), midSpan = z*sqrt(n*q*(1-q)), the left rank not above
\* the right one; on the sorted sample 1..15 it returns [4, 12] for
\* confidence 0.95 and q = 0.5, [6, 10] for 0.8 and 0.5, [2, 5] for 0.5 and 0.2.
C14_OrderStatistics ==
    /\ (/\ Done /\ op = "quantile::ci_sorted_unchecked"
        /\ Len(data) >= 3 /\ StrictlyInUnit(quantile)
        /\ 1 <= ClaimedLow /\ ClaimedHigh <= Len(data))
       => /\ ClaimedLow <= ClaimedHigh
          /\ result = Some(<<data[ClaimedLow], data[ClaimedHigh]>>)
    /\ SortedCallOn(DocData, Ratio(95, 100), Ratio(5, 10))
       => result = ClosedInterval(4, 12)
    /\ SortedCallOn(DocData, Ratio(8, 10), Ratio(5, 10))
       => result = ClosedInterval(6, 10)
    /\ SortedCallOn(DocData, Ratio(5, 10), Ratio(2, 10))
       => result = ClosedInterval(2, 5)
C14_Witness ==
    /\ SortedCallOn(DocData, Ratio(8, 10), Ratio(5, 10))
    /\ ClaimedLow = 6 /\ ClaimedHigh = 10
    /\ result = ClosedInterval(6, 10)

\* what a call returns when it runs alone, from its arguments only
RECURSIVE AloneMean(_, _, _, _, _)
AloneMean(kind, c, d, s, n) ==
    IF d = <<>> THEN ci_after_loop(kind, c, s, n)
    ELSE IF loop_rejects(kind, Head(d)) THEN InvalidInputData
    ELSE AloneMean(kind, c, Tail(d), loop_accumulate(kind, s, Head(d)), n + 1)
Alone(t) ==
    CASE t.op \in MeanKinds -> AloneMean(t.op, t.confidence, t.data, ZeroSums, 0)
      [] t.op = "ci_true" ->
            ci(t.confidence, Len(t.data),
               Cardinality({i \in 1..Len(t.data) : t.data[i]}))
      [] t.op = "quantile::ci" ->
            quantile_ci(t.confidence, t.data, t.quantile, overflow_checks)
Returned(i) == threads # <<>> /\ threads[i].pc = "done"

\* C15: every engine call is independent and stateless: under every
\* interleaving of two concurrent calls (mean, proportion, quantile) on
\* inputs of their own, each call returns what it returns when run alone,
\* whatever the other call did before or meanwhile.
C15_CallsIndependent ==
    \A i \in Tids : Returned(i) => threads[i].result = Alone(threads[i])
C15_Witness ==
    /\ Returned(1) /\ Returned(2)
    /\ threads[1].op = "Arithmetic" /\ threads[1].result.kind = "Interval"
    /\ threads[2].op = "Harmonic" /\ threads[2].result.kind = "Interval"
    /\ threads[1].data # threads[2].data

\* the bounds in transform space, mean - margin and mean + margin
MeanInterval(kind) == Done /\ op = kind /\ result.kind = "Interval"
LowT == ci_bounds(confidence, sums, population)[1]
HighT == ci_bounds(confidence, sums, population)[2]

\* C17: Harmonic::ci maps the transform-space bounds back mirrored: the low
\* bound of its result is the reciprocal of the upper bound and the high
\* bound is the reciprocal of the lower bound, whereas Arithmetic::ci and
\* Geometric::ci keep the order (low from the lower, high from the upper).
C17_HarmonicMirrored ==
    /\ MeanInterval("Harmonic")
       => result.low = recip(HighT) /\ result.high = recip(LowT)
    /\ MeanInterval("Arithmetic")
       => result.low = LowT /\ result.high = HighT
    /\ MeanInterval("Geometric")
       => result.low = exp(LowT) /\ result.high = exp(HighT)

=============================================================================
